---- MODULE Spec2Model ----
(***************************************************************************)
(* A model of the crabby command-line tool (src/bin/crabby.rs): main()     *)
(* dispatches one of six commands against a remote forge.  Every remote    *)
(* call is an interaction with the environment: its response is chosen     *)
(* nondeterministically and recorded in the log `calls`.                   *)
(***************************************************************************)
EXTENDS Integers, Sequences, FiniteSets, TLC

\* ------------------------------------------------------------------ bounds
\* Longest standard input, in rows (block-users).
MaxRows == 3
\* Most records a listing stream yields before it ends or fails.
MaxRecords == 2
\* Most pull requests the pull-request stream yields.
MaxPrs == 3

\* ------------------------------------------------------------- value sets
\* chrono::Duration::num_days counts whole days of 86400 seconds.
SecondsPerDay == 86400

\* Option<T>: None, or Some(v).
None == <<>>
Some(v) == <<v>>

\* The logins of the model, in ascending String order.
LoginOrder == <<"a", "b">>
Logins == {LoginOrder[k] : k \in 1..Len(LoginOrder)}
\* Ord for String, restricted to the logins of the model.
Rank(l) == CHOOSE k \in 1..Len(LoginOrder) : LoginOrder[k] = l

\* The accounts the forge may report: login "a" is carried by two ids.
Accounts ==
  { [login |-> "a", id |-> 1], [login |-> "a", id |-> 2], [login |-> "b", id |-> 3] }

\* created_at of a pull request, in seconds: 1.5 days and 3.5 days.
PrTimes == {129600, 302400}
PullRequests == [user : Accounts, created_at : PrTimes]

\* The profiles get_users_info may return for a login.
Profiles(l) ==
  { [login |-> l, created_at |-> 0, name |-> None, twitter_username |-> None],
    [login |-> l, created_at |-> 172800, name |-> Some("N"), twitter_username |-> Some("t")] }

\* What reader.records() yields for one row: Err, or Ok(record of fields).
Rows ==
  { [ok |-> FALSE, fields |-> <<>>],
    [ok |-> TRUE, fields |-> <<>>],
    [ok |-> TRUE, fields |-> <<"a">>],
    [ok |-> TRUE, fields |-> <<"b", "x">>] }

\* Repository paths given on the command line, as character sequences.
RepoPaths == { <<"o", "/", "r">>, <<"o", "r">> }

Commands ==
  {"BlockUsers", "ListFollowers", "ListFollowing", "ListBlocks",
   "ListPrContributors", "CheckFollow"}
Listings == {"ListFollowers", "ListFollowing", "ListBlocks"}

BoundedSeq(S, n) == UNION { [1..k -> S] : k \in 0..n }
Range(s) == { s[k] : k \in 1..Len(s) }

VARIABLES
  opts,             \* the parsed command line: command and its parameters
  pc,               \* position of main() within the selected command
  result,           \* how main() ended: Running, Ok, Err(..), Panic
  calls,            \* remote calls issued so far, with their responses
  logs,             \* log lines written by main()
  out,              \* lines / CSV records written to standard output
  stdin,            \* the rows standard input holds (block-users)
  pos,              \* rows the CSV reader has consumed
  usernames,        \* the `usernames` vector
  i,                \* index of the running `for` loop
  yielded,          \* users the listing stream has yielded so far
  item,             \* the user handed to the try_for_each closure, if any
  prs,              \* pull requests collected so far
  results,          \* (username, user_id, pr_count, first_pr_date) per group
  follows,          \* locals follows_you / you_follow of load_additional_user_info
  fetched_info,     \* the user-info map as built from get_users_info's answer
  additional_info,  \* Option<AdditionalUserInfo>
  target_user       \* check-follow: the resolved target login

vars ==
  <<opts, pc, result, calls, logs, out, stdin, pos, usernames, i, yielded, item,
    prs, results, follows, fetched_info, additional_info, target_user>>

\* ---------------------------------------------------------- pure functions
\* i64 / usize / u64 to_string.
IntToString(n) == ToString(n)
\* bool to_string.
BoolToString(b) == IF b THEN "true" ELSE "false"
\* Option<String>::unwrap_or_default.
UnwrapOrDefault(o) == IF o = None THEN "" ELSE o[1]

\* chrono::Duration::num_days: whole days, truncated towards zero.
NumDays(secs) ==
  IF secs >= 0 THEN secs \div SecondsPerDay ELSE -((-secs) \div SecondsPerDay)

\* A variant of UserLine that prints the id before the login.
UserLine_IdFirst(user) == IntToString(user.id) \o "," \o user.login

\* println!("{},{}", user.login, user.id)
UserLine(user) == user.login \o "," \o IntToString(user.id)

\* parse_repo_path: Some((owner, repo)) for "owner/repo", None otherwise.
ParseRepoPath(path) ==
  LET slashes == { k \in 1..Len(path) : path[k] = "/" }
  IN  IF Cardinality(slashes) = 1
      THEN LET k == CHOOSE s \in slashes : TRUE
           IN  Some(<<SubSeq(path, 1, k - 1), SubSeq(path, k + 1, Len(path))>>)
      ELSE None

\* All orders of the elements of a sequence.
PermsOf(s) ==
  { [k \in 1..Len(s) |-> s[f[k]]] : f \in Permutations(1..Len(s)) }

\* prs.sort_unstable_by_key(|pr| pr.user.login.clone()): any order of the
\* pull requests that is ascending by login; equal keys may land in any order.
SortOutcomes(s) ==
  { t \in PermsOf(s) :
      \A k \in 1..(Len(t) - 1) : Rank(t[k].user.login) <= Rank(t[k + 1].user.login) }

\* The key of group_by: (pr.user.login, pr.user.id).
GroupKey(pr) == <<pr.user.login, pr.user.id>>

\* Length of the leading run of s whose elements share the key of s[1].
RECURSIVE RunLength(_)
RunLength(s) ==
  IF Len(s) <= 1 THEN Len(s)
  ELSE IF GroupKey(s[2]) = GroupKey(s[1]) THEN 1 + RunLength(Tail(s))
  ELSE 1

\* itertools group_by: consecutive elements with equal keys form one group.
RECURSIVE GroupBy(_)
GroupBy(s) ==
  IF s = <<>> THEN <<>>
  ELSE LET n == RunLength(s)
       IN  <<SubSeq(s, 1, n)>> \o GroupBy(SubSeq(s, n + 1, Len(s)))

\* batch.into_iter().map(|pr| pr.created_at).min().unwrap()
MinCreatedAt(batch) ==
  CHOOSE t \in { batch[k].created_at : k \in 1..Len(batch) } :
    \A k \in 1..Len(batch) : t <= batch[k].created_at

\* One group as the tuple (username, user_id, batch.len(), min created_at).
Summary(batch) ==
  [ username |-> batch[1].user.login,
    user_id |-> batch[1].user.id,
    pr_count |-> Len(batch),
    first_pr_date |-> MinCreatedAt(batch) ]

\* The `results` vector built from the sorted pull requests.
Summaries(sorted) ==
  LET groups == GroupBy(sorted)
  IN  [k \in 1..Len(groups) |-> Summary(groups[k])]

\* HashMap::remove
Remove(m, key) == [l \in (DOMAIN m) \ {key} |-> m[l]]

\* The answers get_users_info may give for the requested logins: at most one
\* profile per requested login, none for logins the forge does not know.
UsersInfoAnswers(requested) ==
  LET known == { S \in SUBSET Logins : S \subseteq Range(requested) }
  IN  UNION { { f \in [S -> UNION { Profiles(l) : l \in S }] :
                  \A l \in S : f[l] \in Profiles(l) } : S \in known }

Call(fn, args, resp) == [fn |-> fn, args |-> args, resp |-> resp]
Log(level, text, arg) == <<level, text, arg>>

\* The three columns every contributor record starts with.
BaseRecord(r) ==
  <<r.username, IntToString(r.user_id), IntToString(r.pr_count)>>

\* The five columns an authenticated run adds.
ExtraColumns(r, info) ==
  LET found == r.username \in DOMAIN info.user_info
      ui == info.user_info[r.username]
      age == IF found THEN NumDays(r.first_pr_date - ui.created_at) ELSE -1
      name == IF found THEN UnwrapOrDefault(ui.name) ELSE ""
      twitter_username == IF found THEN UnwrapOrDefault(ui.twitter_username) ELSE ""
  IN  << IntToString(age), name,
         BoolToString(r.username \in info.you_follow),
         BoolToString(r.username \in info.follows_you),
         twitter_username >>

\* ------------------------------------------------------------------- Init
StartPc(command) ==
  CASE command = "BlockUsers" -> "read"
    [] command \in Listings -> "open"
    [] command = "ListPrContributors" -> "parse"
    [] command = "CheckFollow" -> "target"

OptsOf(command, repo_path, user, follower) ==
  [command |-> command, repo_path |-> repo_path, user |-> user, follower |-> follower]

AllOpts ==
  { OptsOf(c, <<>>, None, "") : c \in {"BlockUsers"} \cup Listings }
    \cup { OptsOf("ListPrContributors", p, None, "") : p \in RepoPaths }
    \cup { OptsOf("CheckFollow", <<>>, u, f) :
             u \in {None} \cup { Some(l) : l \in Logins }, f \in Logins }

Init ==
  /\ opts \in AllOpts
  /\ pc = StartPc(opts.command)
  /\ result = "Running"
  /\ calls = <<>>
  /\ logs = <<>>
  /\ out = <<>>
  /\ stdin \in (IF opts.command = "BlockUsers" THEN BoundedSeq(Rows, MaxRows) ELSE {<<>>})
  /\ pos = 0
  /\ usernames = <<>>
  /\ i = 0
  /\ yielded = <<>>
  /\ item = None
  /\ prs = <<>>
  /\ results = <<>>
  /\ follows = [follows_you |-> {}, you_follow |-> {}]
  /\ fetched_info = <<>>
  /\ additional_info = None
  /\ target_user = ""

\* main() returns: Ok(()), Err(..) through `?`, or a panic.
Finish(how) == result' = how /\ pc' = "done"

\* ------------------------------------------------------------ block-users
\* A variant of ReadRecord that skips a malformed row with a warning.
ReadRecord_SkipMalformed ==
  /\ opts.command = "BlockUsers" /\ pc = "read" /\ pos < Len(stdin)
  /\ LET record == stdin[pos + 1]
     IN  IF ~record.ok \/ record.fields = <<>>
         THEN /\ logs' = Append(logs, Log("warn", "skipping malformed row", pos + 1))
              /\ UNCHANGED usernames
         ELSE /\ usernames' = Append(usernames, record.fields[1])
              /\ UNCHANGED logs
  /\ pos' = pos + 1
  /\ UNCHANGED <<opts, pc, result, calls, out, stdin, i, yielded, item, prs, results,
                 follows, fetched_info, additional_info, target_user>>

\* for record in reader.records() { usernames.push(record?.get(0).unwrap()..) }
ReadRecord ==
  /\ opts.command = "BlockUsers" /\ pc = "read" /\ pos < Len(stdin)
  /\ LET record == stdin[pos + 1]
     IN  IF ~record.ok
         THEN Finish("Err(csv)") /\ UNCHANGED <<pos, usernames>>
         ELSE IF record.fields = <<>>
         THEN Finish("Panic") /\ UNCHANGED <<pos, usernames>>
         ELSE /\ usernames' = Append(usernames, record.fields[1])
              /\ pos' = pos + 1
              /\ UNCHANGED <<pc, result>>
  /\ UNCHANGED <<opts, calls, logs, out, stdin, i, yielded, item, prs, results,
                 follows, fetched_info, additional_info, target_user>>

\* The reader is exhausted: the block loop starts.
ReadDone ==
  /\ opts.command = "BlockUsers" /\ pc = "read" /\ pos = Len(stdin)
  /\ pc' = "block"
  /\ UNCHANGED <<opts, result, calls, logs, out, stdin, pos, usernames, i, yielded,
                 item, prs, results, follows, fetched_info, additional_info,
                 target_user>>

\* A variant of BlockUser that reports a failed call and goes on to the next login.
BlockUser_ContinueOnError ==
  /\ opts.command = "BlockUsers" /\ pc = "block" /\ i < Len(usernames)
  /\ LET username == usernames[i + 1]
     IN  \E resp \in {"true", "false", "err"} :
           /\ calls' = Append(calls, Call("block_user", <<username>>, resp))
           /\ logs' = Append(logs,
                CASE resp = "true" -> Log("info", "Successfully blocked", username)
                  [] resp = "false" -> Log("warn", "was already blocked", username)
                  [] resp = "err" -> Log("error", "could not block", username))
  /\ i' = i + 1
  /\ UNCHANGED <<opts, pc, result, out, stdin, pos, usernames, yielded, item, prs,
                 results, follows, fetched_info, additional_info, target_user>>

\* One turn of `for username in usernames`: block_user(..).await?
BlockUser ==
  /\ opts.command = "BlockUsers" /\ pc = "block" /\ i < Len(usernames)
  /\ LET username == usernames[i + 1]
     IN  \E resp \in {"true", "false", "err"} :
           /\ calls' = Append(calls, Call("block_user", <<username>>, resp))
           /\ IF resp = "err"
              THEN Finish("Err(octocrab)") /\ UNCHANGED <<logs, i>>
              ELSE /\ logs' = Append(logs,
                        IF resp = "true"
                        THEN Log("info", "Successfully blocked", username)
                        ELSE Log("warn", "was already blocked", username))
                   /\ i' = i + 1
                   /\ UNCHANGED <<pc, result>>
  /\ UNCHANGED <<opts, out, stdin, pos, usernames, yielded, item, prs, results,
                 follows, fetched_info, additional_info, target_user>>

\* The block loop is over: main() returns Ok(()).
BlockDone ==
  /\ opts.command = "BlockUsers" /\ pc = "block" /\ i = Len(usernames)
  /\ Finish("Ok")
  /\ UNCHANGED <<opts, calls, logs, out, stdin, pos, usernames, i, yielded, item,
                 prs, results, follows, fetched_info, additional_info, target_user>>

\* ------------------------------------------------- list-followers & co.
\* get_followers / get_following / get_blocks, by command.
StreamOf(command) ==
  CASE command = "ListFollowers" -> "get_followers"
    [] command = "ListFollowing" -> "get_following"
    [] command = "ListBlocks" -> "get_blocks"

\* The log with the response of the latest call replaced.
Answered(resp) == [calls EXCEPT ![Len(calls)].resp = resp]

\* octocrabby::get_followers(&instance): the lazy stream is created.
OpenStream ==
  /\ opts.command \in Listings /\ pc = "open"
  /\ calls' = Append(calls, Call(StreamOf(opts.command), <<>>, "open"))
  /\ pc' = "stream"
  /\ UNCHANGED <<opts, result, logs, out, stdin, pos, usernames, i, yielded, item,
                 prs, results, follows, fetched_info, additional_info, target_user>>

\* try_for_each polls the stream: the next user, its end, or an error (`?`).
PollStream ==
  /\ opts.command \in Listings /\ pc = "stream" /\ item = None
  /\ \/ /\ Len(yielded) < MaxRecords
        /\ \E user \in Accounts :
             /\ yielded' = Append(yielded, user)
             /\ item' = Some(user)
        /\ UNCHANGED <<pc, result, calls>>
     \/ /\ calls' = Answered("end")
        /\ Finish("Ok")
        /\ UNCHANGED <<yielded, item>>
     \/ /\ calls' = Answered("err")
        /\ Finish("Err(octocrab)")
        /\ UNCHANGED <<yielded, item>>
  /\ UNCHANGED <<opts, logs, out, stdin, pos, usernames, i, prs, results, follows,
                 fetched_info, additional_info, target_user>>

\* The closure: println!("{},{}", user.login, user.id); future::ok(())
PrintUser ==
  /\ opts.command \in Listings /\ pc = "stream" /\ item # None
  /\ out' = Append(out, UserLine(item[1]))
  /\ item' = None
  /\ UNCHANGED <<opts, pc, result, calls, logs, stdin, pos, usernames, i, yielded,
                 prs, results, follows, fetched_info, additional_info, target_user>>

\* ---------------------------------------------------- list-pr-contributors
\* if let Some((owner, repo)) = parse_repo_path(&repo_path) { .. } else { log }
ParsePath ==
  /\ opts.command = "ListPrContributors" /\ pc = "parse"
  /\ LET parsed == ParseRepoPath(opts.repo_path)
     IN  IF parsed = None
         THEN /\ logs' = Append(logs, Log("error", "Invalid repository path", opts.repo_path))
              /\ Finish("Ok")
              /\ UNCHANGED calls
         ELSE /\ logs' = Append(logs, Log("info", "Loading pull requests", <<>>))
              /\ calls' = Append(calls, Call("pull_requests", parsed[1], "open"))
              /\ pc' = "collect"
              /\ UNCHANGED result
  /\ UNCHANGED <<opts, out, stdin, pos, usernames, i, yielded, item, prs, results,
                 follows, fetched_info, additional_info, target_user>>

\* A variant of CollectPrs that takes a failed poll for the end of the stream.
CollectPrs_IgnoreError ==
  /\ opts.command = "ListPrContributors" /\ pc = "collect"
  /\ \/ /\ Len(prs) < MaxPrs
        /\ \E pr \in PullRequests : prs' = Append(prs, pr)
        /\ UNCHANGED <<pc, calls>>
     \/ /\ calls' = Answered("end")
        /\ pc' = "aggregate"
        /\ UNCHANGED prs
     \/ /\ calls' = Answered("err")
        /\ pc' = "aggregate"
        /\ UNCHANGED prs
  /\ UNCHANGED <<opts, result, logs, out, stdin, pos, usernames, i, yielded, item,
                 results, follows, fetched_info, additional_info, target_user>>

\* pull_requests(..).try_collect::<Vec<_>>().await?: one poll of the stream.
CollectPrs ==
  /\ opts.command = "ListPrContributors" /\ pc = "collect"
  /\ \/ /\ Len(prs) < MaxPrs
        /\ \E pr \in PullRequests : prs' = Append(prs, pr)
        /\ UNCHANGED <<pc, result, calls>>
     \/ /\ calls' = Answered("end")
        /\ pc' = "aggregate"
        /\ UNCHANGED <<prs, result>>
     \/ /\ calls' = Answered("err")
        /\ Finish("Err(octocrab)")
        /\ UNCHANGED prs
  /\ UNCHANGED <<opts, logs, out, stdin, pos, usernames, i, yielded, item, results,
                 follows, fetched_info, additional_info, target_user>>

\* Sort by login, group consecutive equal (login, id), summarise each group and
\* collect the groups' logins; `prs` is moved into the grouping.
Aggregate ==
  /\ opts.command = "ListPrContributors" /\ pc = "aggregate"
  /\ \E sorted \in SortOutcomes(prs) :
       /\ results' = Summaries(sorted)
       /\ usernames' = [k \in 1..Len(results') |-> results'[k].username]
  /\ prs' = <<>>
  /\ pc' = "probe"
  /\ UNCHANGED <<opts, result, calls, logs, out, stdin, pos, i, yielded, item,
                 follows, fetched_info, additional_info, target_user>>

\* A variant of Probe that loads the additional information whatever the probe says.
Probe_LoadAnyway ==
  /\ opts.command = "ListPrContributors" /\ pc = "probe"
  /\ \E resp \in {"ok", "err"} :
       calls' = Append(calls, Call("current_user", <<>>, resp))
  /\ pc' = "followers"
  /\ UNCHANGED <<opts, result, logs, out, stdin, pos, usernames, i, yielded, item,
                 prs, results, follows, fetched_info, additional_info, target_user>>

\* if instance.current().user().await.is_ok() { Some(load..) } else { None }
Probe ==
  /\ opts.command = "ListPrContributors" /\ pc = "probe"
  /\ \E resp \in {"ok", "err"} :
       /\ calls' = Append(calls, Call("current_user", <<>>, resp))
       /\ pc' = IF resp = "ok" THEN "followers" ELSE "write"
  /\ UNCHANGED <<opts, result, logs, out, stdin, pos, usernames, i, yielded, item,
                 prs, results, follows, fetched_info, additional_info, target_user>>

\* load_additional_user_info: follows_you = get_followers(..).try_collect().await?
LoadFollowers ==
  /\ opts.command = "ListPrContributors" /\ pc = "followers"
  /\ logs' = Append(logs, Log("info", "Loading follower information", <<>>))
  /\ \/ \E logins \in SUBSET Logins :
          /\ calls' = Append(calls, Call("get_followers", <<>>, "end"))
          /\ follows' = [follows EXCEPT !.follows_you = logins]
          /\ pc' = "following"
          /\ UNCHANGED result
     \/ /\ calls' = Append(calls, Call("get_followers", <<>>, "err"))
        /\ Finish("Err(octocrab)")
        /\ UNCHANGED follows
  /\ UNCHANGED <<opts, out, stdin, pos, usernames, i, yielded, item, prs, results,
                 fetched_info, additional_info, target_user>>

\* load_additional_user_info: you_follow = get_following(..).try_collect().await?
LoadFollowing ==
  /\ opts.command = "ListPrContributors" /\ pc = "following"
  /\ logs' = Append(logs, Log("info", "Loading following information", <<>>))
  /\ \/ \E logins \in SUBSET Logins :
          /\ calls' = Append(calls, Call("get_following", <<>>, "end"))
          /\ follows' = [follows EXCEPT !.you_follow = logins]
          /\ pc' = "users_info"
          /\ UNCHANGED result
     \/ /\ calls' = Append(calls, Call("get_following", <<>>, "err"))
        /\ Finish("Err(octocrab)")
        /\ UNCHANGED follows
  /\ UNCHANGED <<opts, out, stdin, pos, usernames, i, yielded, item, prs, results,
                 fetched_info, additional_info, target_user>>

\* load_additional_user_info: user_info = get_users_info(..).await? keyed by
\* login, then Ok(AdditionalUserInfo { .. }).
LoadUsersInfo ==
  /\ opts.command = "ListPrContributors" /\ pc = "users_info"
  /\ logs' = Append(logs,
       Log("info", "Loading additional user information", Len(usernames)))
  /\ \/ \E user_info \in UsersInfoAnswers(usernames) :
          /\ calls' = Append(calls, Call("get_users_info", usernames, "ok"))
          /\ fetched_info' = user_info
          /\ additional_info' =
               Some([ follows_you |-> follows.follows_you,
                      you_follow |-> follows.you_follow,
                      user_info |-> user_info ])
          /\ pc' = "write"
          /\ UNCHANGED result
     \/ /\ calls' = Append(calls, Call("get_users_info", usernames, "err"))
        /\ Finish("Err(octocrab)")
        /\ UNCHANGED <<fetched_info, additional_info>>
  /\ UNCHANGED <<opts, out, stdin, pos, usernames, i, yielded, item, prs, results,
                 follows, target_user>>

\* One turn of `for (username, user_id, pr_count, first_pr_date) in results`.
WriteRow ==
  /\ opts.command = "ListPrContributors" /\ pc = "write" /\ i < Len(results)
  /\ LET r == results[i + 1]
     IN  IF additional_info = None
         THEN /\ out' = Append(out, BaseRecord(r))
              /\ UNCHANGED additional_info
         ELSE LET info == additional_info[1]
              IN  /\ out' = Append(out, BaseRecord(r) \o ExtraColumns(r, info))
                  /\ additional_info' =
                       Some([info EXCEPT !.user_info = Remove(@, r.username)])
  /\ i' = i + 1
  /\ UNCHANGED <<opts, pc, result, calls, logs, stdin, pos, usernames, yielded,
                 item, prs, results, follows, fetched_info, target_user>>

\* All records are written: main() returns Ok(()).
WriteDone ==
  /\ opts.command = "ListPrContributors" /\ pc = "write" /\ i = Len(results)
  /\ Finish("Ok")
  /\ UNCHANGED <<opts, calls, logs, out, stdin, pos, usernames, i, yielded, item,
                 prs, results, follows, fetched_info, additional_info, target_user>>

\* ------------------------------------------------------------ check-follow
\* A variant of ResolveTarget that asks who the current user is even when a
\* target login is given.
ResolveTarget_AlwaysProbe ==
  /\ opts.command = "CheckFollow" /\ pc = "target"
  /\ \/ \E login \in Logins :
          /\ calls' = Append(calls, Call("current_user", <<>>, login))
          /\ target_user' = IF opts.user # None THEN opts.user[1] ELSE login
          /\ pc' = "check"
          /\ UNCHANGED result
     \/ /\ calls' = Append(calls, Call("current_user", <<>>, "err"))
        /\ Finish("Err(octocrab)")
        /\ UNCHANGED target_user
  /\ UNCHANGED <<opts, logs, out, stdin, pos, usernames, i, yielded, item, prs,
                 results, follows, fetched_info, additional_info>>

\* target_user = match user { Some(v) => v, None => current().user().await?.login }
ResolveTarget ==
  /\ opts.command = "CheckFollow" /\ pc = "target"
  /\ IF opts.user # None
     THEN /\ target_user' = opts.user[1]
          /\ pc' = "check"
          /\ UNCHANGED <<calls, result>>
     ELSE \/ \E login \in Logins :
               /\ calls' = Append(calls, Call("current_user", <<>>, login))
               /\ target_user' = login
               /\ pc' = "check"
               /\ UNCHANGED result
          \/ /\ calls' = Append(calls, Call("current_user", <<>>, "err"))
             /\ Finish("Err(octocrab)")
             /\ UNCHANGED target_user
  /\ UNCHANGED <<opts, logs, out, stdin, pos, usernames, i, yielded, item, prs,
                 results, follows, fetched_info, additional_info>>

\* result = check_follow(&instance, &follower, &target_user).await?; println!
CallCheckFollow ==
  /\ opts.command = "CheckFollow" /\ pc = "check"
  /\ \E resp \in {"true", "false", "err"} :
       /\ calls' = Append(calls, Call("check_follow", <<opts.follower, target_user>>, resp))
       /\ IF resp = "err"
          THEN Finish("Err(octocrab)") /\ UNCHANGED out
          ELSE /\ out' = Append(out, BoolToString(resp = "true"))
               /\ Finish("Ok")
  /\ UNCHANGED <<opts, logs, stdin, pos, usernames, i, yielded, item, prs, results,
                 follows, fetched_info, additional_info, target_user>>

\* ------------------------------------------------------------------- Spec
Next ==
  \/ ReadRecord
  \/ ReadDone
  \/ BlockUser
  \/ BlockDone
  \/ OpenStream
  \/ PollStream
  \/ PrintUser
  \/ ParsePath
  \/ CollectPrs
  \/ Aggregate
  \/ Probe
  \/ LoadFollowers
  \/ LoadFollowing
  \/ LoadUsersInfo
  \/ WriteRow
  \/ WriteDone
  \/ ResolveTarget
  \/ CallCheckFollow

Spec == Init /\ [][Next]_vars

\* ----------------------------------------------------------------- claims
IsBlockUsers == opts.command = "BlockUsers"
IsListing == opts.command \in Listings
IsContributors == opts.command = "ListPrContributors"
IsCheckFollow == opts.command = "CheckFollow"

\* The positions of the log that hold a call to fn.
CallsTo(fn) == { k \in 1..Len(calls) : calls[k].fn = fn }
Malformed(row) == ~row.ok \/ row.fields = <<>>
BlockCallFailed == \E k \in CallsTo("block_user") : calls[k].resp = "err"
ProbeOk == \E k \in CallsTo("current_user") : calls[k].resp = "ok"
ProbeFailed == \E k \in CallsTo("current_user") : calls[k].resp = "err"

C2_SkipMalformedRow ==
  (IsBlockUsers /\ pc = "done" /\ ~BlockCallFailed) =>
    \A k \in 1..Len(stdin) :
      ~Malformed(stdin[k]) =>
        \E c \in 1..Len(calls) : calls[c].args = <<stdin[k].fields[1]>>

\* C2 amended: a malformed row is fatal to the whole command. All rows are
\* read before the first block call, so with a malformed row anywhere in the
\* input no block call is ever issued, and the run ends with the CSV error (an
\* unparseable record) or a panic (a record with no first field) of the first
\* malformed row.
C2_MalformedRowFatal ==
  (IsBlockUsers /\ \E k \in 1..Len(stdin) : Malformed(stdin[k])) =>
    LET first == CHOOSE k \in 1..Len(stdin) :
                   Malformed(stdin[k]) /\ \A j \in 1..(k - 1) : ~Malformed(stdin[j])
    IN  /\ calls = <<>>
        /\ pc \in {"read", "done"}
        /\ pc = "done" =>
             result = (IF ~stdin[first].ok THEN "Err(csv)" ELSE "Panic")

\* C2 witness: a malformed row between two well-formed rows has ended the run.
C2_Witness ==
  /\ IsBlockUsers /\ pc = "done" /\ Len(stdin) = 3
  /\ ~Malformed(stdin[1]) /\ Malformed(stdin[2]) /\ ~Malformed(stdin[3])

\* C3 as stated: with a repository path that does not parse, the command issues
\* no remote call and ends with an input-format error, neither a success nor a
\* transport error.
C3_InvalidPathIsInputError ==
  (IsContributors /\ pc = "done" /\ ParseRepoPath(opts.repo_path) = None) =>
    /\ calls = <<>>
    /\ result \notin {"Ok", "Err(octocrab)"}

\* C4: in a listing command the output is exactly the lines `login,id` of the
\* users the stream yielded, in order; the line of a user is written before the
\* next user is pulled; the run ends Ok when the stream ends and with the error
\* when the stream fails, after the lines already written.
C4_ListingStreamsInOrder ==
  IsListing =>
    /\ Len(out) = Len(yielded) - (IF item = None THEN 0 ELSE 1)
    /\ item # None => item[1] = yielded[Len(yielded)]
    /\ \A k \in 1..Len(out) :
         out[k] = yielded[k].login \o "," \o ToString(yielded[k].id)
    /\ pc = "stream" => (calls[1].fn = StreamOf(opts.command) /\ calls[1].resp = "open")
    /\ pc = "done" =>
         /\ Len(calls) = 1
         /\ Len(out) = Len(yielded)
         /\ calls[1].resp \in {"end", "err"}
         /\ result = (IF calls[1].resp = "end" THEN "Ok" ELSE "Err(octocrab)")

\* C4 witness: the stream failed after yielding two different users.
C4_Witness ==
  /\ IsListing /\ pc = "done" /\ result = "Err(octocrab)"
  /\ Len(out) = 2 /\ yielded[1] # yielded[2]

RECURSIVE SumCounts(_)
SumCounts(rs) == IF rs = <<>> THEN 0 ELSE rs[1].pr_count + SumCounts(Tail(rs))

\* C5 as stated: whatever the order the pull requests arrived in, aggregation
\* gives exactly one row per distinct (login, id) author pair, whose count is
\* the number of pull requests of that pair, and the counts sum to the number
\* of pull requests fetched.
C5_OneRowPerAuthor ==
  [][ (IsContributors /\ pc = "aggregate") =>
        LET pairs == { GroupKey(prs[k]) : k \in 1..Len(prs) }
        IN  /\ Len(results') = Cardinality(pairs)
            /\ \A pair \in pairs :
                 \E k \in 1..Len(results') :
                   /\ results'[k].username = pair[1]
                   /\ results'[k].user_id = pair[2]
                   /\ results'[k].pr_count =
                        Cardinality({ j \in 1..Len(prs) : GroupKey(prs[j]) = pair })
            /\ \A k \in 1..Len(results') : results'[k].pr_count >= 1
            /\ SumCounts(results') = Len(prs) ]_vars

\* C6 as stated: in an authenticated run every group produces a row; a row
\* whose login is in the batch user-info result carries the whole days between
\* the group's earliest pull request and the account's creation, with the
\* account's name and handle; a row carries age -1 with empty name and handle
\* if and only if its login is absent from that result.
C6_EnrichmentMatchesLookup ==
  (IsContributors /\ additional_info # None) =>
    /\ \A k \in 1..Len(out) :
         LET r == results[k]
             present == r.username \in DOMAIN fetched_info
             sentinel == out[k][4] = "-1" /\ out[k][5] = "" /\ out[k][8] = ""
         IN  /\ present =>
                  LET ui == fetched_info[r.username]
                  IN  /\ out[k][4] = ToString(NumDays(r.first_pr_date - ui.created_at))
                      /\ out[k][5] = UnwrapOrDefault(ui.name)
                      /\ out[k][8] = UnwrapOrDefault(ui.twitter_username)
             /\ sentinel <=> ~present
    /\ (pc = "done" /\ result = "Ok") => Len(out) = Len(results)

\* C7 as stated: rows come in ascending login order, and for a fixed set of
\* pull requests every arrival order gives the identical sequence of rows.
C7_DeterministicOrder ==
  [][ (IsContributors /\ pc = "aggregate") =>
        /\ \A k \in 1..(Len(results') - 1) :
             Rank(results'[k].username) <= Rank(results'[k + 1].username)
        /\ \A arrival \in PermsOf(prs) :
             \A sorted \in SortOutcomes(arrival) : Summaries(sorted) = results' ]_vars

\* The age, name and handle columns a row of summary r may carry.
ProfileColumns(r) ==
  { <<"-1", "", "">> } \cup
    { << ToString(NumDays(r.first_pr_date - fetched_info[l].created_at)),
         UnwrapOrDefault(fetched_info[l].name),
         UnwrapOrDefault(fetched_info[l].twitter_username) >> :
        l \in { r.username } \cap DOMAIN fetched_info }

\* C8: the who-am-I probe is issued at most once and decides the shape of every
\* row. After a successful probe every row has the 8 fields login, id, count,
\* age, display_name, you_follow, follows_you, external_handle in that order;
\* after a failed probe every row has the 3 fields login, id, count and no
\* followers, following or user-info call is issued. No row is written before
\* the probe.
C8_RowShapeFollowsProbe ==
  IsContributors =>
    /\ Cardinality(CallsTo("current_user")) <= 1
    /\ out # <<>> => (ProbeOk \/ ProbeFailed)
    /\ ProbeOk =>
         \A k \in 1..Len(out) :
           /\ Len(out[k]) = 8
           /\ out[k][1] = results[k].username
           /\ out[k][2] = ToString(results[k].user_id)
           /\ out[k][3] = ToString(results[k].pr_count)
           /\ <<out[k][4], out[k][5], out[k][8]>> \in ProfileColumns(results[k])
           /\ out[k][6] =
                (IF results[k].username \in follows.you_follow THEN "true" ELSE "false")
           /\ out[k][7] =
                (IF results[k].username \in follows.follows_you THEN "true" ELSE "false")
    /\ ProbeFailed =>
         /\ \A k \in 1..Len(out) :
              out[k] = << results[k].username, ToString(results[k].user_id),
                          ToString(results[k].pr_count) >>
         /\ CallsTo("get_followers") \cup CallsTo("get_following")
              \cup CallsTo("get_users_info") = {}

\* C8 witness: an authenticated run has written two rows and ended.
C8_Witness ==
  /\ IsContributors /\ pc = "done" /\ result = "Ok"
  /\ ProbeOk /\ Len(out) = 2

\* C9: with a target login given, check-follow issues exactly one relationship
\* check for (follower, target) and nothing else, also when follower = target;
\* with the target omitted it first asks who the current user is and checks
\* against the login returned; if that call fails no check is issued and the
\* run ends in error; a run that ends Ok has printed exactly one boolean, the
\* answer of the check.
C9_CheckFollowCalls ==
  IsCheckFollow =>
    /\ \A k \in 1..Len(calls) : calls[k].fn \in {"current_user", "check_follow"}
    /\ opts.user # None =>
         /\ CallsTo("current_user") = {}
         /\ Len(calls) <= 1
         /\ pc = "done" =>
              /\ Len(calls) = 1
              /\ calls[1].args = <<opts.follower, opts.user[1]>>
    /\ opts.user = None =>
         /\ Len(calls) <= 2
         /\ pc # "target" => calls[1].fn = "current_user"
         /\ (pc # "target" /\ calls[1].resp = "err") =>
              (Len(calls) = 1 /\ pc = "done" /\ result = "Err(octocrab)")
         /\ Len(calls) = 2 =>
              /\ calls[2].fn = "check_follow"
              /\ calls[2].args = <<opts.follower, calls[1].resp>>
         /\ (pc = "done" /\ calls[1].resp # "err") => Len(calls) = 2
    /\ result = "Ok" =>
         /\ Len(out) = 1
         /\ out[1] \in {"true", "false"}
         /\ out[1] = calls[Len(calls)].resp
    /\ result # "Ok" => out = <<>>

\* C9 witness: a check of a login against itself, target given, has answered.
C9_Witness ==
  /\ IsCheckFollow /\ pc = "done" /\ result = "Ok"
  /\ opts.user = Some(opts.follower)

\* C10: no row is written before the pull-request stream has ended normally
\* and, after a successful probe, before the followers, following and
\* user-info loads have all succeeded; a failure of the pull-request stream or
\* of one of those loads ends the run at once with the error and no row.
C10_RowsOnlyAfterLoads ==
  IsContributors =>
    /\ out # <<>> =>
         /\ calls[1].fn = "pull_requests" /\ calls[1].resp = "end"
         /\ ProbeOk =>
              /\ \E k \in CallsTo("get_followers") : calls[k].resp = "end"
              /\ \E k \in CallsTo("get_following") : calls[k].resp = "end"
              /\ \E k \in CallsTo("get_users_info") : calls[k].resp = "ok"
    /\ \A k \in 1..Len(calls) :
         (calls[k].fn # "current_user" /\ calls[k].resp = "err") =>
           (k = Len(calls) /\ pc = "done" /\ result = "Err(octocrab)")
    /\ result \notin {"Running", "Ok"} => out = <<>>

\* C10 witness: the user-info load failed after two groups were aggregated.
C10_Witness ==
  /\ IsContributors /\ pc = "done" /\ result = "Err(octocrab)"
  /\ Len(results) = 2
  /\ \E k \in CallsTo("get_users_info") : calls[k].resp = "err"

====
